---- MODULE Spec2Model ----
(***************************************************************************)
(* img-sort: media files are discovered under a source directory, their    *)
(* EXIF DateTimeOriginal is read, and they are grouped in a Tree keyed by  *)
(* (year, month), year or month.                                           *)
(*                                                                         *)
(* Two entry points are modelled:                                          *)
(*   Spec      the binary: main -> Arguments::validate -> run (src/lib.rs) *)
(*   TreeSpec  the tree module (src/tree.rs) under an arbitrary caller:    *)
(*             build_tree, Tree::insert, Tree::size, Tree::print and       *)
(*             Tree::save                                                  *)
(***************************************************************************)
EXTENDS Integers, Sequences, FiniteSets, TLC

VARIABLES
    pc,          \* position of the thread of control
    years,       \* Arguments.years / build_tree's first flag
    months,      \* Arguments.months / build_tree's second flag
    tree,        \* the Tree: its variant and its BTreeMap
    ninserted,   \* history: number of Tree::insert calls made
    lastInsert,  \* history: the arguments of the last Tree::insert call
    saveKey,     \* Tree::save: index of the map entry the outer loop is at
    saveItem,    \* Tree::save: 0 before create_dir_all, else index in the bucket
    saveResult,  \* what Tree::save returned: "none", "Ok" or "Err"
    fs,          \* the destination file system: directories and files
    ops,         \* history: the file system calls made so far, in order
    stdout,      \* lines printed
    stderr,      \* messages written by main or by the panic handler
    exit,        \* process exit status: "running", "0", "1" or "101"
    pathKind,    \* what Arguments.path names: "missing", "file" or "dir"
    walk,        \* the entries the GlobWalker yields, in order
    pos,         \* number of walker entries consumed so far
    opened       \* history: the paths File::open was called on, in order

vars == <<pc, years, months, tree, ninserted, lastInsert, saveKey, saveItem,
          saveResult, fs, ops, stdout, stderr, exit, pathKind, walk, pos, opened>>

(***************************************************************************)
(* Bounds of the model and the inputs drawn from them.                     *)
(***************************************************************************)
MaxInserts == 3

MaxWalk == 3

\* Years and months a caller of Tree::insert passes: an i32 and a u32.
Years == {-1, 0, 2024}

Months == {0, 1, 12, 13}

\* The n-th file: every path is distinct, file names repeat.
NameOf(n) == IF n % 2 = 1 THEN "x.jpg" ELSE "y.jpg"

PathOf(n) == <<"src", n, NameOf(n)>>

(***************************************************************************)
(* src/image.rs                                                            *)
(***************************************************************************)
Image(path, name) == [name |-> name, path |-> path]

(***************************************************************************)
(* src/tree.rs: the Tree enum.  A BTreeMap is the sequence of its entries  *)
(* in iteration order; entry() finds the key or the place to put it.       *)
(***************************************************************************)
NoTree == [shape |-> "None", map |-> <<>>]

Unreachable == [shape |-> "unreachable", map |-> <<>>]

\* An order that compares the month before the year.
MonthFirstKeyLess(shape, a, b) ==
    IF shape = "YearMonth"
    THEN a[2] < b[2] \/ (a[2] = b[2] /\ a[1] < b[1])
    ELSE a < b

\* Ord of the key type: (i32, u32) compares lexicographically, i32 and u32
\* numerically.
KeyLess(shape, a, b) ==
    IF shape = "YearMonth"
    THEN a[1] < b[1] \/ (a[1] = b[1] /\ a[2] < b[2])
    ELSE a < b

HasKey(map, key) == \E i \in 1..Len(map) : map[i].key = key

IndexOf(map, key) == CHOOSE i \in 1..Len(map) : map[i].key = key

\* BTreeMap::entry(key).or_insert_with(Vec::new).push(image)
EntryPush(shape, map, key, image) ==
    IF HasKey(map, key)
    THEN [map EXCEPT ![IndexOf(map, key)].images = Append(@, image)]
    ELSE LET below == Cardinality({i \in 1..Len(map) : KeyLess(shape, map[i].key, key)})
         IN  SubSeq(map, 1, below)
               \o <<[key |-> key, images |-> <<image>>]>>
               \o SubSeq(map, below + 1, Len(map))

\* A projection with the two components exchanged.
WrongProject(shape, datetime) ==
    CASE shape = "YearMonth" -> datetime
      [] shape = "Year"      -> datetime[2]
      [] shape = "Month"     -> datetime[1]

\* The key Tree::insert files a (year, month) pair under.
Project(shape, datetime) ==
    CASE shape = "YearMonth" -> datetime
      [] shape = "Year"      -> datetime[1]
      [] shape = "Month"     -> datetime[2]

\* Tree::insert
insert(t, datetime, image) ==
    [t EXCEPT !.map = EntryPush(t.shape, t.map, Project(t.shape, datetime), image)]

RECURSIVE SumLen(_)
SumLen(map) ==
    IF map = <<>> THEN 0 ELSE Len(Head(map).images) + SumLen(Tail(map))

\* A size that counts the buckets instead of their items.
BucketCount(t) == Len(t.map)

\* Tree::size
size(t) == SumLen(t.map)

\* A build_tree whose single-flag arms are exchanged.
SwappedBuildTree(y, m) ==
    CASE y /\ m   -> [shape |-> "YearMonth", map |-> <<>>]
      [] y /\ ~m  -> [shape |-> "Month", map |-> <<>>]
      [] ~y /\ m  -> [shape |-> "Year", map |-> <<>>]
      [] OTHER    -> Unreachable

\* build_tree
build_tree(y, m) ==
    CASE y /\ m   -> [shape |-> "YearMonth", map |-> <<>>]
      [] y /\ ~m  -> [shape |-> "Year", map |-> <<>>]
      [] ~y /\ m  -> [shape |-> "Month", map |-> <<>>]
      [] OTHER    -> Unreachable

\* A get_month that counts the months from 0.
ZeroBasedGetMonth(month) ==
    CASE month = 0  -> "January"
      [] month = 1  -> "February"
      [] month = 2  -> "March"
      [] month = 3  -> "April"
      [] month = 4  -> "May"
      [] month = 5  -> "June"
      [] month = 6  -> "July"
      [] month = 7  -> "August"
      [] month = 8  -> "September"
      [] month = 9  -> "October"
      [] month = 10 -> "November"
      [] month = 11 -> "December"
      [] OTHER      -> "Unknown"

\* get_month
get_month(month) ==
    CASE month = 1  -> "January"
      [] month = 2  -> "February"
      [] month = 3  -> "March"
      [] month = 4  -> "April"
      [] month = 5  -> "May"
      [] month = 6  -> "June"
      [] month = 7  -> "July"
      [] month = 8  -> "August"
      [] month = 9  -> "September"
      [] month = 10 -> "October"
      [] month = 11 -> "November"
      [] month = 12 -> "December"
      [] OTHER      -> "Unknown"

Digit == <<"0", "1", "2", "3", "4", "5", "6", "7", "8", "9">>

RECURSIVE NatToString(_)
NatToString(n) ==
    IF n < 10 THEN Digit[n + 1]
    ELSE NatToString(n \div 10) \o Digit[(n % 10) + 1]

\* i32::to_string
to_string(n) == IF n < 0 THEN "-" \o NatToString(-n) ELSE NatToString(n)

\* Tree::save: the directory of one key under dest.
SubDir(shape, dest, key) ==
    CASE shape = "YearMonth" -> dest \o <<to_string(key[1]), get_month(key[2])>>
      [] shape = "Year"      -> dest \o <<to_string(key)>>
      [] shape = "Month"     -> dest \o <<get_month(key)>>

\* Tree::print: the lines in the order they are written.
RECURSIVE ImageLines(_)
ImageLines(images) ==
    IF images = <<>> THEN <<>>
    ELSE <<[line |-> "image", path |-> Head(images).path]>> \o ImageLines(Tail(images))

RECURSIVE PrintLines(_)
PrintLines(map) ==
    IF map = <<>> THEN <<>>
    ELSE <<[line |-> "key", key |-> Head(map).key]>>
           \o ImageLines(Head(map).images) \o PrintLines(Tail(map))

(***************************************************************************)
(* The file system under the destination root.                             *)
(***************************************************************************)
Dest == <<"dest">>

EmptyFs == [dirs |-> {}, files |-> <<>>]

NoFile == [path |-> <<>>, data |-> "none"]

\* fs::create_dir_all creates the directory and its missing ancestors; a
\* failing call may have created the first n of them.
CreateDirs(f, dir, n) ==
    [f EXCEPT !.dirs = @ \cup {SubSeq(dir, 1, j) : j \in 1..n}]

FileAt(f, path) ==
    IF \E i \in 1..Len(f.files) : f.files[i].path = path
    THEN f.files[CHOOSE i \in 1..Len(f.files) : f.files[i].path = path]
    ELSE NoFile

\* A write that leaves a file already at path as it is.
KeepExistingFile(f, path, data) ==
    IF \E i \in 1..Len(f.files) : f.files[i].path = path
    THEN f
    ELSE [f EXCEPT !.files = Append(@, [path |-> path, data |-> data])]

\* A file written at path: it replaces the file already there, if any.
WriteFile(f, path, data) ==
    IF \E i \in 1..Len(f.files) : f.files[i].path = path
    THEN [f EXCEPT !.files[CHOOSE i \in 1..Len(f.files) : f.files[i].path = path].data = data]
    ELSE [f EXCEPT !.files = Append(@, [path |-> path, data |-> data])]

(***************************************************************************)
(* TreeSpec: a caller of src/tree.rs.                                      *)
(***************************************************************************)
NoInsert == [datetime |-> <<0, 0>>, image |-> Image(<<>>, "")]

TreeInit ==
    /\ pc = "start"
    /\ years \in BOOLEAN
    /\ months \in BOOLEAN
    /\ tree = NoTree
    /\ ninserted = 0
    /\ lastInsert = NoInsert
    /\ saveKey = 0
    /\ saveItem = 0
    /\ saveResult = "none"
    /\ fs = EmptyFs
    /\ ops = <<>>
    /\ stdout = <<>>
    /\ stderr = <<>>
    /\ exit = "running"
    /\ pathKind = "dir"
    /\ walk = <<>>
    /\ pos = 0
    /\ opened = <<>>

RunVars == <<stderr, exit, pathKind, walk, pos, opened>>

SaveVars == <<saveKey, saveItem, saveResult, fs, ops>>

\* let tree = build_tree(&years, &months); the unreachable!() arm panics.
BuildTree ==
    /\ pc = "start"
    /\ LET t == build_tree(years, months)
       IN  IF t = Unreachable
           THEN /\ pc' = "panicked"
                /\ tree' = tree
           ELSE /\ pc' = "client"
                /\ tree' = t
    /\ UNCHANGED <<years, months, ninserted, lastInsert, stdout>>
    /\ UNCHANGED SaveVars
    /\ UNCHANGED RunVars

\* tree.insert(datetime, Image::new(path, name))
Insert ==
    /\ pc = "client"
    /\ ninserted < MaxInserts
    /\ \E y \in Years, m \in Months :
         LET image == Image(PathOf(ninserted + 1), NameOf(ninserted + 1))
         IN  /\ tree' = insert(tree, <<y, m>>, image)
             /\ lastInsert' = [datetime |-> <<y, m>>, image |-> image]
    /\ ninserted' = ninserted + 1
    /\ UNCHANGED <<pc, years, months, stdout>>
    /\ UNCHANGED SaveVars
    /\ UNCHANGED RunVars

\* tree.print()
print ==
    /\ pc = "client"
    /\ stdout' = PrintLines(tree.map)
    /\ pc' = "printed"
    /\ UNCHANGED <<years, months, tree, ninserted, lastInsert>>
    /\ UNCHANGED SaveVars
    /\ UNCHANGED RunVars

\* tree.save(&dest): the call, before the first iteration.
SaveCall ==
    /\ pc = "client"
    /\ pc' = "save"
    /\ saveKey' = 1
    /\ saveItem' = 0
    /\ UNCHANGED <<years, months, tree, ninserted, lastInsert, stdout,
                   saveResult, fs, ops>>
    /\ UNCHANGED RunVars

SaveFrame ==
    /\ UNCHANGED <<years, months, tree, ninserted, lastInsert, stdout>>
    /\ UNCHANGED RunVars

\* A save that goes on to the next operation after an error.
IgnoreError ==
    /\ pc' = "save"
    /\ saveResult' = saveResult
    /\ IF saveItem = 0
       THEN /\ saveKey' = saveKey
            /\ saveItem' = 1
       ELSE IF saveItem = Len(tree.map[saveKey].images)
            THEN /\ saveKey' = saveKey + 1
                 /\ saveItem' = 0
            ELSE /\ saveKey' = saveKey
                 /\ saveItem' = saveItem + 1

\* The ? after create_dir_all and copy: save returns the error.
Propagate ==
    /\ pc' = "returned"
    /\ saveResult' = "Err"
    /\ UNCHANGED <<saveKey, saveItem>>

\* fs::create_dir_all(&dir)? succeeds.
SaveCreateDirOk ==
    /\ pc = "save"
    /\ saveKey <= Len(tree.map)
    /\ saveItem = 0
    /\ LET key == tree.map[saveKey].key
           dir == SubDir(tree.shape, Dest, key)
       IN  /\ fs' = CreateDirs(fs, dir, Len(dir))
           /\ ops' = Append(ops, [op |-> "create_dir_all", key |-> key,
                                  dir |-> dir, ok |-> TRUE])
    /\ saveItem' = 1
    /\ UNCHANGED <<pc, saveKey, saveResult>>
    /\ SaveFrame

\* fs::create_dir_all(&dir)? fails, after creating n of the ancestors.
SaveCreateDirErr ==
    /\ pc = "save"
    /\ saveKey <= Len(tree.map)
    /\ saveItem = 0
    /\ LET key == tree.map[saveKey].key
           dir == SubDir(tree.shape, Dest, key)
       IN  /\ \E n \in 0..(Len(dir) - 1) : fs' = CreateDirs(fs, dir, n)
           /\ ops' = Append(ops, [op |-> "create_dir_all", key |-> key,
                                  dir |-> dir, ok |-> FALSE])
    /\ Propagate
    /\ SaveFrame

\* The position after a copy: the next item, or the next key.
AfterCopy ==
    IF saveItem = Len(tree.map[saveKey].images)
    THEN /\ saveKey' = saveKey + 1
         /\ saveItem' = 0
    ELSE /\ saveKey' = saveKey
         /\ saveItem' = saveItem + 1

\* fs::copy(&image.path, &dest)? succeeds.
SaveCopyOk ==
    /\ pc = "save"
    /\ saveKey <= Len(tree.map)
    /\ saveItem >= 1
    /\ LET key   == tree.map[saveKey].key
           image == tree.map[saveKey].images[saveItem]
           to    == SubDir(tree.shape, Dest, key) \o <<image.name>>
       IN  /\ fs' = WriteFile(fs, to, image.path)
           /\ ops' = Append(ops, [op |-> "copy", key |-> key, from |-> image.path,
                                  to |-> to, ok |-> TRUE])
    /\ AfterCopy
    /\ UNCHANGED <<pc, saveResult>>
    /\ SaveFrame

\* fs::copy(&image.path, &dest)? fails: before the destination was opened,
\* or after it was created or truncated.
SaveCopyErr ==
    /\ pc = "save"
    /\ saveKey <= Len(tree.map)
    /\ saveItem >= 1
    /\ LET key   == tree.map[saveKey].key
           image == tree.map[saveKey].images[saveItem]
           to    == SubDir(tree.shape, Dest, key) \o <<image.name>>
       IN  /\ \/ fs' = fs
              \/ fs' = WriteFile(fs, to, "partial")
           /\ ops' = Append(ops, [op |-> "copy", key |-> key, from |-> image.path,
                                  to |-> to, ok |-> FALSE])
    /\ Propagate
    /\ SaveFrame

\* Ok(()) after the last key.
SaveReturnOk ==
    /\ pc = "save"
    /\ saveKey > Len(tree.map)
    /\ pc' = "returned"
    /\ saveResult' = "Ok"
    /\ UNCHANGED <<saveKey, saveItem, fs, ops>>
    /\ SaveFrame

TreeNext ==
    \/ BuildTree
    \/ Insert
    \/ print
    \/ SaveCall
    \/ SaveCreateDirOk
    \/ SaveCreateDirErr
    \/ SaveCopyOk
    \/ SaveCopyErr
    \/ SaveReturnOk

TreeSpec == TreeInit /\ [][TreeNext]_vars

(***************************************************************************)
(* src/lib.rs: the Tree of the library crate and its build_tree.           *)
(***************************************************************************)
\* Image::new of src/lib.rs: the path alone.
LibImage(path) == [path |-> path]

\* Tree::insert of src/lib.rs
lib_insert(t, datetime, image) ==
    [t EXCEPT !.map = EntryPush(t.shape, t.map, Project(t.shape, datetime), image)]

\* Tree::size of src/lib.rs
lib_size(t) == SumLen(t.map)

\* build_tree of src/lib.rs
lib_build_tree(y, m) ==
    IF m /\ y THEN [shape |-> "YearMonth", map |-> <<>>]
    ELSE IF y THEN [shape |-> "Year", map |-> <<>>]
    ELSE [shape |-> "Month", map |-> <<>>]

(***************************************************************************)
(* What the walker yields.  An entry is "err" (a per-entry error of the    *)
(* walk), or a file: "unreadable" (File::open fails), "nocontainer" (no    *)
(* EXIF container can be read), "nofield" (no DateTimeOriginal field), or  *)
(* the text of its DateTimeOriginal field.                                 *)
(***************************************************************************)
FieldTexts ==
    {"2024:01:01 00:00:00", "1999:12:31 23:59:59", "2023:02:30 00:00:00",
     "2024:13:01 00:00:00", "0000:00:00 00:00:00", "2024-01-01 00:00:00",
     "    :  :     :  :  ", "2024:01:01"}

EntryKinds == {"err", "unreadable", "nocontainer", "nofield"} \cup FieldTexts

\* The bytes of a field text.
Bytes(text) ==
    CASE text = "2024:01:01 00:00:00" ->
           <<"2","0","2","4",":","0","1",":","0","1"," ","0","0",":","0","0",":","0","0">>
      [] text = "1999:12:31 23:59:59" ->
           <<"1","9","9","9",":","1","2",":","3","1"," ","2","3",":","5","9",":","5","9">>
      [] text = "2023:02:30 00:00:00" ->
           <<"2","0","2","3",":","0","2",":","3","0"," ","0","0",":","0","0",":","0","0">>
      [] text = "2024:13:01 00:00:00" ->
           <<"2","0","2","4",":","1","3",":","0","1"," ","0","0",":","0","0",":","0","0">>
      [] text = "0000:00:00 00:00:00" ->
           <<"0","0","0","0",":","0","0",":","0","0"," ","0","0",":","0","0",":","0","0">>
      [] text = "2024-01-01 00:00:00" ->
           <<"2","0","2","4","-","0","1","-","0","1"," ","0","0",":","0","0",":","0","0">>
      [] text = "    :  :     :  :  " ->
           <<" "," "," "," ",":"," "," ",":"," "," "," "," "," ",":"," "," ",":"," "," ">>
      [] text = "2024:01:01" ->
           <<"2","0","2","4",":","0","1",":","0","1">>

IsDigit(c) == c \in {"0", "1", "2", "3", "4", "5", "6", "7", "8", "9"}

DigitValue(c) == (CHOOSE d \in 1..10 : Digit[d] = c) - 1

\* The number the n digits of s from position p spell.
RECURSIVE Number(_, _, _)
Number(s, p, n) ==
    IF n = 0 THEN 0
    ELSE 10 * Number(s, p, n - 1) + DigitValue(s[p + n - 1])

AllDigits(s, p, n) == \A i \in p..(p + n - 1) : i <= Len(s) /\ IsDigit(s[i])

(***************************************************************************)
(* field.display_value(): a DateTimeOriginal that exif's DateTime reads    *)
(* (19 bytes or more, ':' ':' ' ' ':' ':' between digits) is written as    *)
(* YYYY-MM-DD HH:MM:SS; any other value is written as a quoted string.     *)
(***************************************************************************)
BlankDateTime ==
    <<" "," "," "," ",":"," "," ",":"," "," "," "," "," ",":"," "," ",":"," "," ">>

from_ascii(data) ==
    IF data = BlankDateTime \/ Len(data) < 19 THEN [ok |-> FALSE, f |-> <<>>]
    ELSE IF ~(/\ data[5] = ":" /\ data[8] = ":" /\ data[11] = " "
              /\ data[14] = ":" /\ data[17] = ":")
    THEN [ok |-> FALSE, f |-> <<>>]
    ELSE IF ~(/\ AllDigits(data, 1, 4) /\ AllDigits(data, 6, 2)
              /\ AllDigits(data, 9, 2) /\ AllDigits(data, 12, 2)
              /\ AllDigits(data, 15, 2) /\ AllDigits(data, 18, 2))
    THEN [ok |-> FALSE, f |-> <<>>]
    ELSE [ok |-> TRUE,
          f  |-> <<Number(data, 1, 4), Number(data, 6, 2), Number(data, 9, 2),
                   Number(data, 12, 2), Number(data, 15, 2), Number(data, 18, 2)>>]

RECURSIVE NatChars(_)
NatChars(n) ==
    IF n < 10 THEN <<Digit[n + 1]>>
    ELSE Append(NatChars(n \div 10), Digit[(n % 10) + 1])

RECURSIVE Padded(_, _)
Padded(chars, width) ==
    IF Len(chars) >= width THEN chars ELSE Padded(<<"0">> \o chars, width)

\* A display that hands the raw bytes on unchanged.
RawDisplay(data) == data

display_value(data) ==
    LET dt == from_ascii(data)
    IN  IF dt.ok
        THEN Padded(NatChars(dt.f[1]), 4) \o <<"-">> \o Padded(NatChars(dt.f[2]), 2)
               \o <<"-">> \o Padded(NatChars(dt.f[3]), 2) \o <<" ">>
               \o Padded(NatChars(dt.f[4]), 2) \o <<":">> \o Padded(NatChars(dt.f[5]), 2)
               \o <<":">> \o Padded(NatChars(dt.f[6]), 2)
        ELSE <<"\"">> \o data \o <<"\"">>

(***************************************************************************)
(* NaiveDateTime::parse_from_str(s, "%Y-%m-%d %H:%M:%S")                   *)
(***************************************************************************)
RECURSIVE SkipSpaces(_, _)
SkipSpaces(s, p) ==
    IF p <= Len(s) /\ s[p] = " " THEN SkipSpaces(s, p + 1) ELSE p

RECURSIVE DigitsFrom(_, _, _)
DigitsFrom(s, p, max) ==
    IF max > 0 /\ p <= Len(s) /\ IsDigit(s[p])
    THEN 1 + DigitsFrom(s, p + 1, max - 1)
    ELSE 0

\* A numeric item: leading white space, then 1..max digits.
ScanNumber(s, p, max) ==
    LET q == SkipSpaces(s, p)
        n == DigitsFrom(s, q, max)
    IN  [ok |-> n >= 1, val |-> Number(s, q, n), next |-> q + n]

\* %Y: a sign lifts the limit of four digits.
ScanYear(s, p) ==
    LET q == SkipSpaces(s, p)
    IN  IF q <= Len(s) /\ s[q] \in {"+", "-"}
        THEN LET r == ScanNumber(s, q + 1, Len(s))
             IN  [ok |-> r.ok /\ r.next > q + 1 /\ IsDigit(s[q + 1]),
                  val |-> IF s[q] = "-" THEN -r.val ELSE r.val,
                  next |-> r.next]
        ELSE ScanNumber(s, q, 4)

ScanLiteral(s, p, c) == [ok |-> p <= Len(s) /\ s[p] = c, next |-> p + 1]

IsLeap(year) == (year % 4 = 0 /\ year % 100 # 0) \/ year % 400 = 0

DaysIn(year, month) ==
    CASE month \in {1, 3, 5, 7, 8, 10, 12} -> 31
      [] month \in {4, 6, 9, 11}           -> 30
      [] month = 2                         -> IF IsLeap(year) THEN 29 ELSE 28
      [] OTHER                             -> 0

None == [some |-> FALSE, dt |-> <<0, 0>>]

Some(dt) == [some |-> TRUE, dt |-> dt]

\* .ok().map(|dt| (dt.year(), dt.month()))
parse_from_str(s) ==
    LET y  == ScanYear(s, 1)
        l1 == ScanLiteral(s, y.next, "-")
        mo == ScanNumber(s, l1.next, 2)
        l2 == ScanLiteral(s, mo.next, "-")
        d  == ScanNumber(s, l2.next, 2)
        h  == ScanNumber(s, SkipSpaces(s, d.next), 2)
        l3 == ScanLiteral(s, h.next, ":")
        mi == ScanNumber(s, l3.next, 2)
        l4 == ScanLiteral(s, mi.next, ":")
        se == ScanNumber(s, l4.next, 2)
    IN  IF /\ y.ok /\ l1.ok /\ mo.ok /\ l2.ok /\ d.ok /\ h.ok /\ l3.ok
           /\ mi.ok /\ l4.ok /\ se.ok
           /\ se.next = Len(s) + 1
           /\ mo.val \in 1..12
           /\ d.val \in 1..DaysIn(y.val, mo.val)
           /\ h.val < 24 /\ mi.val < 60 /\ se.val <= 60
        THEN Some(<<y.val, mo.val>>)
        ELSE None

\* Whether File::open(path).unwrap() panics.
NeverPanics(kind) == FALSE

OpenPanics(kind) == kind = "unreadable"

\* get_datetime_original, for a file that could be opened.
get_datetime_original(kind) ==
    IF kind \in {"unreadable", "nocontainer", "nofield"} THEN None
    ELSE parse_from_str(display_value(Bytes(kind)))

(***************************************************************************)
(* Spec: the binary.                                                       *)
(***************************************************************************)
Walks == UNION {[1..n -> EntryKinds] : n \in 0..MaxWalk}

Init ==
    /\ pc = "main"
    /\ years \in BOOLEAN
    /\ months \in BOOLEAN
    /\ pathKind \in {"missing", "file", "dir"}
    /\ walk \in Walks
    /\ pathKind # "dir" => walk = <<>>
    /\ tree = NoTree
    /\ ninserted = 0
    /\ lastInsert = NoInsert
    /\ saveKey = 0
    /\ saveItem = 0
    /\ saveResult = "none"
    /\ fs = EmptyFs
    /\ ops = <<>>
    /\ stdout = <<>>
    /\ stderr = <<>>
    /\ exit = "running"
    /\ pos = 0
    /\ opened = <<>>

\* Arguments::validate
validate(kind, y, m) ==
    IF kind = "missing" THEN "does not exist"
    ELSE IF kind # "dir" THEN "is not a directory"
    ELSE IF ~y /\ ~m THEN "Either the months or years flag must be set"
    ELSE "Ok"

\* The index of the next entry after p that filter_map(Result::ok) lets
\* through, or 0.
NextOk(w, p) ==
    IF \E i \in (p + 1)..Len(w) : w[i] # "err"
    THEN CHOOSE i \in (p + 1)..Len(w) :
            /\ w[i] # "err"
            /\ \A j \in (p + 1)..(i - 1) : w[j] = "err"
    ELSE 0

\* A peek that never reports an empty iterator.
NeverNone(w) == FALSE

\* images.peek().is_none()
PeekIsNone(w) == NextOk(w, 0) = 0

ProcVars == <<years, months, pathKind, walk>>

\* main: parse and validate the arguments; exit(1) when they are rejected.
Main ==
    /\ pc = "main"
    /\ LET v == validate(pathKind, years, months)
       IN  IF v = "Ok"
           THEN /\ pc' = "run"
                /\ UNCHANGED <<stderr, exit>>
           ELSE /\ pc' = "exited"
                /\ stderr' = Append(stderr, "Problem validating arguments")
                /\ exit' = "1"
    /\ UNCHANGED <<tree, ninserted, lastInsert, stdout, pos, opened>>
    /\ UNCHANGED ProcVars
    /\ UNCHANGED SaveVars

\* run: build_glob_walker(&args.path, &PATTERNS)? and build_tree.
RunBuild ==
    /\ pc = "run"
    /\ tree' = lib_build_tree(years, months)
    /\ pc' = "find"
    /\ UNCHANGED <<ninserted, lastInsert, stdout, stderr, exit, pos, opened>>
    /\ UNCHANGED ProcVars
    /\ UNCHANGED SaveVars

\* find: the peek.  With nothing to peek at, find returns NotFound, run
\* returns it through ? and main reports it and exits with 1.
FindPeek ==
    /\ pc = "find"
    /\ IF PeekIsNone(walk)
       THEN /\ pc' = "exited"
            /\ pos' = Len(walk)
            /\ stderr' = Append(stderr, "Application error: NotFound")
            /\ exit' = "1"
       ELSE /\ pc' = "loop"
            /\ UNCHANGED <<pos, stderr, exit>>
    /\ UNCHANGED <<tree, ninserted, lastInsert, stdout, opened>>
    /\ UNCHANGED ProcVars
    /\ UNCHANGED SaveVars

\* find: one iteration of the loop over the walker's files.
FindStep ==
    /\ pc = "loop"
    /\ NextOk(walk, pos) # 0
    /\ LET i    == NextOk(walk, pos)
           path == PathOf(i)
       IN  /\ opened' = Append(opened, path)
           /\ IF OpenPanics(walk[i])
              THEN /\ pc' = "exited"
                   /\ stderr' = Append(stderr, "panicked: called unwrap on an Err value")
                   /\ exit' = "101"
                   /\ UNCHANGED <<tree, ninserted, lastInsert, pos>>
              ELSE LET found    == get_datetime_original(walk[i])
                       datetime == IF found.some THEN found.dt ELSE <<0, 0>>
                   IN  /\ tree' = lib_insert(tree, datetime, LibImage(path))
                       /\ lastInsert' = [datetime |-> datetime, image |-> LibImage(path)]
                       /\ ninserted' = ninserted + 1
                       /\ pos' = i
                       /\ UNCHANGED <<pc, stderr, exit>>
    /\ UNCHANGED stdout
    /\ UNCHANGED ProcVars
    /\ UNCHANGED SaveVars

\* find returns Ok(()) when the walker is exhausted.
FindReturn ==
    /\ pc = "loop"
    /\ NextOk(walk, pos) = 0
    /\ pos' = Len(walk)
    /\ pc' = "report"
    /\ UNCHANGED <<tree, ninserted, lastInsert, stdout, stderr, exit, opened>>
    /\ UNCHANGED ProcVars
    /\ UNCHANGED SaveVars

\* run: print the count and the tree, return Ok(()); main returns.
RunReport ==
    /\ pc = "report"
    /\ stdout' = <<[line |-> "found", count |-> lib_size(tree)]>> \o PrintLines(tree.map)
    /\ pc' = "exited"
    /\ exit' = "0"
    /\ UNCHANGED <<tree, ninserted, lastInsert, stderr, pos, opened>>
    /\ UNCHANGED ProcVars
    /\ UNCHANGED SaveVars

Next ==
    \/ Main
    \/ RunBuild
    \/ FindPeek
    \/ FindStep
    \/ FindReturn
    \/ RunReport

Spec == Init /\ [][Next]_vars

(***************************************************************************)
(* Properties of the tree module, checked under TreeSpec.                  *)
(***************************************************************************)
Built == pc \notin {"start", "panicked"}

Keys(t) == {t.map[i].key : i \in 1..Len(t.map)}

Bucket(t, key) == IF HasKey(t.map, key) THEN t.map[IndexOf(t.map, key)].images ELSE <<>>

\* The number of places in the tree that hold the image with this path.
Occurrences(t, path) ==
    Cardinality(UNION {{<<i, j>> : j \in {n \in 1..Len(t.map[i].images) :
                                            t.map[i].images[n].path = path}} :
                       i \in 1..Len(t.map)})

\* The shape the two flags select.
ShapeOfFlags(y, m) ==
    CASE y /\ m  -> "YearMonth"
      [] y /\ ~m -> "Year"
      [] ~y /\ m -> "Month"
      [] OTHER   -> "None"

\* The key a (year, month) pair has in a shape.
KeyInShape(shape, year, month) ==
    CASE shape = "YearMonth" -> <<year, month>>
      [] shape = "Year"      -> year
      [] shape = "Month"     -> month

\* Ascending order of keys: by year then month, or numerically.
Ascends(shape, a, b) ==
    CASE shape = "YearMonth" -> a[1] < b[1] \/ (a[1] = b[1] /\ a[2] < b[2])
      [] shape = "Year"      -> a < b
      [] shape = "Month"     -> a < b

StrictlyAscending(shape, keys) ==
    \A i \in 1..Len(keys) : \A j \in 1..Len(keys) :
        i < j => Ascends(shape, keys[i], keys[j])

IsCreateDir(op) == op.op = "create_dir_all"

IsCopy(op) == op.op = "copy"

IsKeyLine(l) == l.line = "key"

KeysOfEntries(map) == [i \in 1..Len(map) |-> map[i].key]

\* The keys Tree::save has visited, in order.
SaveVisited == LET c == SelectSeq(ops, IsCreateDir) IN [i \in 1..Len(c) |-> c[i].key]

\* The keys Tree::print has printed, in order.
PrintVisited == LET c == SelectSeq(stdout, IsKeyLine) IN [i \in 1..Len(c) |-> c[i].key]

\* C1: after any sequence of insert calls on an index that build_tree made,
\* size() is the number of insert calls, whatever the key shape: every
\* inserted item is counted, and counted once.
C1_SizeIsInsertCount ==
    Built => /\ size(tree) = ninserted
             /\ \A n \in 1..ninserted : Occurrences(tree, PathOf(n)) = 1

\* C1 witness: three inserts have landed in two buckets of a year-only index.
C1_Witness ==
    /\ pc = "client"
    /\ tree.shape = "Year"
    /\ ninserted = 3
    /\ Len(tree.map) = 2
    /\ size(tree) = 3

\* The year of a key, where the shape has one.
YearOfKey(shape, key) == IF shape = "YearMonth" THEN key[1] ELSE key

\* C2: iterating the index visits its keys in strictly ascending order, each
\* once, whatever the insertion order: the entries themselves, the keys
\* save creates directories for and the keys print writes; a completed save
\* or print has visited every key; the sentinel (0,0) / 0 comes before every
\* other key that is not negative.
C2_IterationAscending ==
    Built =>
      /\ StrictlyAscending(tree.shape, KeysOfEntries(tree.map))
      /\ StrictlyAscending(tree.shape, SaveVisited)
      /\ StrictlyAscending(tree.shape, PrintVisited)
      /\ saveResult = "Ok" => SaveVisited = KeysOfEntries(tree.map)
      /\ pc = "printed" => PrintVisited = KeysOfEntries(tree.map)
      /\ \A i \in 1..Len(tree.map) : \A j \in 1..Len(tree.map) :
            /\ tree.map[j].key = KeyInShape(tree.shape, 0, 0)
            /\ i < j
            => IF tree.shape = "Month" THEN FALSE
               ELSE YearOfKey(tree.shape, tree.map[i].key) < 0

\* C2 witness: save has visited three keys of a year+month index whose
\* smallest key was inserted last.
C2_Witness ==
    /\ saveResult = "Ok"
    /\ tree.shape = "YearMonth"
    /\ Len(SaveVisited) = 3
    /\ ninserted = 3
    /\ SaveVisited[1] = lastInsert.datetime

MonthNames ==
    <<"January", "February", "March", "April", "May", "June", "July",
      "August", "September", "October", "November", "December">>

MonthText(month) == IF month = 0 THEN "Unknown" ELSE MonthNames[month]

YearText(year) ==
    CASE year = -1   -> "-1"
      [] year = 0    -> "0"
      [] year = 2024 -> "2024"

MonthOfKey(shape, key) == IF shape = "YearMonth" THEN key[2] ELSE key

\* The month of the key is one discovery produces (the shape has no month,
\* or it is in 0..12).
DiscoveryKey(shape, key) == shape = "Year" \/ MonthOfKey(shape, key) \in 0..12

ExpectedDir(shape, key) ==
    CASE shape = "YearMonth" -> <<"dest", YearText(key[1]), MonthText(key[2])>>
      [] shape = "Year"      -> <<"dest", YearText(key)>>
      [] shape = "Month"     -> <<"dest", MonthText(key)>>

\* C6: the directory save creates for a key is dest/<year>/<MonthName>,
\* dest/<year> or dest/<MonthName>: the year in decimal (0 is "0"), months
\* 1..12 January..December, month 0 "Unknown"; distinct keys with months in
\* 0..12 get distinct directories, and each copy goes into its key's directory.
C6_SubdirectoryOfKey ==
    /\ \A i \in 1..Len(ops) :
          DiscoveryKey(tree.shape, ops[i].key) =>
            IF IsCreateDir(ops[i])
            THEN ops[i].dir = ExpectedDir(tree.shape, ops[i].key)
            ELSE SubSeq(ops[i].to, 1, Len(ops[i].to) - 1)
                    = ExpectedDir(tree.shape, ops[i].key)
    /\ \A i \in 1..Len(ops) : \A j \in 1..Len(ops) :
          /\ IsCreateDir(ops[i]) /\ IsCreateDir(ops[j])
          /\ DiscoveryKey(tree.shape, ops[i].key)
          /\ DiscoveryKey(tree.shape, ops[j].key)
          /\ ops[i].key # ops[j].key
          => ops[i].dir # ops[j].dir

\* C6 witness: a save of a year+month index has created the directories of
\* the sentinel key and of a December key.
C6_Witness ==
    /\ saveResult = "Ok"
    /\ tree.shape = "YearMonth"
    /\ \E i \in 1..Len(ops) : \E j \in 1..Len(ops) :
          /\ IsCreateDir(ops[i]) /\ ops[i].key = <<0, 0>>
          /\ ops[i].dir = <<"dest", "0", "Unknown">>
          /\ IsCreateDir(ops[j]) /\ ops[j].key = <<2024, 12>>
          /\ ops[j].dir = <<"dest", "2024", "December">>

\* The copies a complete save makes: every item of every bucket, in order.
RECURSIVE AllItems(_)
AllItems(map) ==
    IF map = <<>> THEN <<>>
    ELSE [j \in 1..Len(Head(map).images) |-> Head(map).images[j].path]
           \o AllItems(Tail(map))

CopiedFrom == LET c == SelectSeq(ops, IsCopy) IN [i \in 1..Len(c) |-> c[i].from]

\* C7: a failing create_dir_all or copy makes save return the error at
\* once: the failed call is the last file system call save makes; what was
\* copied before it is still at its destination and the directories made
\* are still there; without a failure save returns Ok after copying every
\* item of every bucket.
C7_SaveStopsAtFirstError ==
    /\ \A i \in 1..Len(ops) :
          ~ops[i].ok => /\ i = Len(ops)
                        /\ pc = "returned"
                        /\ saveResult = "Err"
    /\ saveResult = "Err" => Len(ops) >= 1 /\ ~ops[Len(ops)].ok
    /\ \A i \in 1..Len(ops) :
          ops[i].ok =>
            IF IsCopy(ops[i])
            THEN FileAt(fs, ops[i].to) # NoFile
            ELSE ops[i].dir \in fs.dirs
    /\ saveResult = "Ok" =>
          /\ \A i \in 1..Len(ops) : ops[i].ok
          /\ CopiedFrom = AllItems(tree.map)
          /\ SaveVisited = KeysOfEntries(tree.map)

\* C7 witness: save returned Err at a copy, after a successful copy and
\* with a later key still unvisited.
C7_Witness ==
    /\ saveResult = "Err"
    /\ Len(ops) >= 4
    /\ IsCopy(ops[Len(ops)])
    /\ \E i \in 1..(Len(ops) - 1) : IsCopy(ops[i]) /\ ops[i].ok
    /\ saveKey < Len(tree.map)

\* C8: with at least one flag set, build_tree makes the index of the shape
\* the flags select (both: year+month, years only: year, months only:
\* month), in src/tree.rs and in src/lib.rs alike, and the index has that
\* shape, and only keys of that shape, after any sequence of inserts.
C8_ShapeFixed ==
    (years \/ months) =>
      /\ pc # "panicked"
      /\ lib_build_tree(years, months).shape = ShapeOfFlags(years, months)
      /\ Built =>
           /\ tree.shape = ShapeOfFlags(years, months)
           /\ \A i \in 1..Len(tree.map) :
                CASE tree.shape = "YearMonth" ->
                        /\ tree.map[i].key[1] \in Years
                        /\ tree.map[i].key[2] \in Months
                  [] tree.shape = "Year"  -> tree.map[i].key \in Years
                  [] tree.shape = "Month" -> tree.map[i].key \in Months

\* C8 witness: a month-only index after three inserts with different years.
C8_Witness ==
    /\ ~years /\ months
    /\ ninserted = 3
    /\ tree.shape = "Month"
    /\ Len(tree.map) = 1
    /\ lastInsert.datetime[1] = 2024

\* What one insert call changes.
InsertEffect ==
    LET shape == ShapeOfFlags(years, months)
        dt    == lastInsert'.datetime
        key   == KeyInShape(shape, dt[1], dt[2])
    IN  /\ Keys(tree') = Keys(tree) \cup {key}
        /\ Bucket(tree', key) = Append(Bucket(tree, key), lastInsert'.image)
        /\ \A k \in Keys(tree) : k # key => Bucket(tree', k) = Bucket(tree, k)
        /\ Len(tree'.map) = Cardinality(Keys(tree'))

\* C9: insert((year, month), item) appends the item at the end of the one
\* bucket whose key is (year, month) projected onto the shape, creating it
\* if absent, and changes no other bucket; every inserted item is in
\* exactly one bucket.
C9_InsertAppendsToOneBucket ==
    /\ [][ninserted' = ninserted + 1 => InsertEffect]_vars
    /\ [](Built => \A n \in 1..ninserted : Occurrences(tree, PathOf(n)) = 1)

\* C9 witness: in a year-only index two items with different months share
\* the bucket of their year, in insertion order.
C9_Witness ==
    /\ tree.shape = "Year"
    /\ ninserted = 2
    /\ lastInsert.datetime = <<2024, 12>>
    /\ Len(tree.map) = 1
    /\ tree.map[1].key = 2024
    /\ Len(tree.map[1].images) = 2
    /\ tree.map[1].images[2] = lastInsert.image

(***************************************************************************)
(* Properties of the binary, checked under Spec.                           *)
(***************************************************************************)
ArgsValid == pathKind = "dir" /\ (years \/ months)

NoCandidates == \A i \in 1..Len(walk) : walk[i] = "err"

\* The (year, month) a file belongs under: the date its DateTimeOriginal
\* holds when that is a date written YYYY:MM:DD HH:MM:SS, else (0, 0).
DateOf(kind) ==
    CASE kind = "2024:01:01 00:00:00" -> <<2024, 1>>
      [] kind = "1999:12:31 23:59:59" -> <<1999, 12>>
      [] OTHER                        -> <<0, 0>>

HoldsPath(images, path) == \E j \in 1..Len(images) : images[j].path = path

\* The walker entry a path that was opened belongs to.
EntryOf(path) == path[2]

C4_NotFoundBeforeExtraction ==
    (ArgsValid /\ NoCandidates) =>
      /\ pc \notin {"loop", "report"}
      /\ opened = <<>>
      /\ tree.map = <<>>
      /\ ninserted = 0
      /\ fs = EmptyFs
      /\ ops = <<>>
      /\ stdout = <<>>
      /\ pc = "exited" =>
            /\ exit = "1"
            /\ stderr = <<"Application error: NotFound">>

\* C4 witness: a walk of two per-entry errors has ended in NotFound.
C4_Witness ==
    /\ pc = "exited"
    /\ ArgsValid
    /\ walk = <<"err", "err">>
    /\ exit = "1"
    /\ opened = <<>>

\* C5: a run that returns success has saved the populated index under the
\* destination, every item copied into its key's directory, and no
\* directory is created and no file copied before the last insert.
C5_SuccessMeansMaterialized ==
    /\ exit = "0" =>
          /\ saveResult = "Ok"
          /\ \A i \in 1..Len(tree.map) : \A j \in 1..Len(tree.map[i].images) :
                LET path == tree.map[i].images[j].path
                IN  FileAt(fs, SubDir(tree.shape, Dest, tree.map[i].key)
                                 \o <<path[Len(path)]>>) # NoFile
    /\ ops # <<>> => pc \in {"report", "exited"}

\* C10: when a file cannot be opened, the run ends there: nothing is opened
\* after it, that file and the files after it are not in the index, nothing
\* is created, copied or reported as found, and the process ends in failure
\* with one message.
C10_OpenFailureAborts ==
    \A i \in 1..Len(opened) :
       walk[EntryOf(opened[i])] = "unreadable" =>
          /\ i = Len(opened)
          /\ pc = "exited"
          /\ exit \in {"1", "101"}
          /\ Len(stderr) = 1
          /\ \A n \in EntryOf(opened[i])..Len(walk) : Occurrences(tree, PathOf(n)) = 0
          /\ ninserted = i - 1
          /\ fs = EmptyFs
          /\ ops = <<>>
          /\ stdout = <<>>

\* C10 witness: the second of three files could not be opened; the first
\* is in the index, the third, which holds a date, is not.
C10_Witness ==
    /\ walk = <<"nofield", "unreadable", "2024:01:01 00:00:00">>
    /\ years /\ ~months
    /\ pc = "exited"
    /\ exit = "101"
    /\ Len(opened) = 2
    /\ size(tree) = 1

(***************************************************************************)
(* File name collisions in Tree::save, checked under TreeSpec.             *)
(***************************************************************************)
\* Where save puts item j of bucket i: its key's directory and its name.
TargetOf(i, j) ==
    SubDir(tree.shape, Dest, tree.map[i].key) \o <<tree.map[i].images[j].name>>

\* The last item of bucket i that has the name of its item j.
LastNamed(i, j) ==
    LET same == {n \in 1..Len(tree.map[i].images) :
                    tree.map[i].images[n].name = tree.map[i].images[j].name}
    IN  tree.map[i].images[CHOOSE n \in same : \A o \in same : o <= n]

\* Some bucket holds two items of one name.
NameRepeatsInBucket ==
    \E i \in 1..Len(tree.map) : \E j \in 1..Len(tree.map[i].images) :
       \E n \in 1..Len(tree.map[i].images) :
          j # n /\ tree.map[i].images[j].name = tree.map[i].images[n].name

\* After a save that returned Ok: no copy renamed its file, every target
\* holds the last item of its bucket with that name, items of one name in
\* different buckets have different targets, and there are as many files as
\* (bucket, name) pairs, fewer than size() when a bucket repeats a name.
CollisionOutcome ==
    /\ \A k \in 1..Len(ops) :
          IsCopy(ops[k]) => ops[k].ok /\ ops[k].to[Len(ops[k].to)] = ops[k].from[3]
    /\ \A i \in 1..Len(tree.map) : \A j \in 1..Len(tree.map[i].images) :
          /\ FileAt(fs, TargetOf(i, j)).data = LastNamed(i, j).path
          /\ \A i2 \in 1..Len(tree.map) : \A j2 \in 1..Len(tree.map[i2].images) :
                i # i2 => TargetOf(i, j) # TargetOf(i2, j2)
    /\ Len(fs.files) =
          Cardinality({<<i, tree.map[i].images[j].name>> :
                          <<i, j>> \in {<<a, b>> \in (1..Len(tree.map)) \X (1..size(tree)) :
                                           b <= Len(tree.map[a].images)}})
    /\ NameRepeatsInBucket => Len(fs.files) < size(tree)

AllDiscoveryKeys ==
    \A i \in 1..Len(tree.map) : DiscoveryKey(tree.shape, tree.map[i].key)

====
